---- MODULE Spec2Model ----
(***************************************************************************)
(* Model of merklificator.py: chunkmap_from_bytemap (the chunker),         *)
(* merklize (the missing-hash counter, stepped one tree level at a time)   *)
(* and the part of main that chains them for one contract and chunk size.  *)
(*                                                                         *)
(* A RoaringBitmap is modelled as a finite set of naturals.  A call's      *)
(* outcome is a record [kind, value, error]: kind is "none" (not called or *)
(* still running), "return" or "error" (an exception left the function).   *)
(***************************************************************************)
EXTENDS Integers, FiniteSets, Sequences, TLC

VARIABLES
    mode,                    \* "unit": one function call; "main": main's pipeline
    bytemap,                 \* the byte-presence set handed to the chunker
    chunk_size,              \* the chunk size of the chunker call
    chunk_ret,               \* outcome of chunkmap_from_bytemap
    chunkmap,                \* merklize's argument chunkmap
    arity,                   \* merklize's argument arity
    max_theoretical_chunks,  \* merklize's argument max_theoretical_chunks
    filename,                \* TRUE iff merklize got a filename (visualization)
    pc,                      \* position of the program
    map,                     \* merklize's local map: the current level's nodes
    theoretical_siblings,    \* merklize's local theoretical_siblings
    current_level,           \* merklize's local current_level
    num_hashes,              \* merklize's local num_hashes
    p,                       \* merklize's loop variable p, Unbound before any iteration
    levels,                  \* log of the levels processed, one record per iteration
    ret,                     \* outcome of merklize
    segments,                \* main: number of segments merged into bytemap
    highlighter              \* main: TRUE iff the sanity check of line 330 fired

vars == << mode, bytemap, chunk_size, chunk_ret, chunkmap, arity,
           max_theoretical_chunks, filename, pc, map, theoretical_siblings,
           current_level, num_hashes, p, levels, ret, segments, highlighter >>

-----------------------------------------------------------------------------
(* Bounds of the model. *)

MaxByte == 6            \* unit chunker calls: bytes 0..MaxByte, plus ExtraBytes
MaxChunkSize == 3       \* chunk sizes 1..MaxChunkSize, plus ExtraChunkSizes
MaxChunk == 6           \* unit merklize calls: chunk indices 0..MaxChunk
MaxArity == 4           \* arities 1..MaxArity
MaxTheoreticalChunks == 8   \* unit merklize calls: max_theoretical_chunks 0..this
MaxSegments == 2        \* main: segments merged into one bytemap
MaxSegmentLength == 2   \* main: bytes per segment

ExtraBytes == {31, 32}
ExtraChunkSizes == {5, 32}
ChunkSizes == (1..MaxChunkSize) \cup ExtraChunkSizes

(* The program's constant. *)
MAXCODESIZE == 24576

-----------------------------------------------------------------------------
(* Integer helpers. *)

Min(a, b) == IF a <= b THEN a ELSE b

\* math.ceil(a / b) for a >= 0, b >= 1 (the float quotient of integers this
\* small is exact or far from an integer, so the ceiling is the integer one)
CeilDiv(a, b) == (a + b - 1) \div b

-----------------------------------------------------------------------------
(* RoaringBitmap operations used by the program. *)

\* RoaringBitmap.max() of a non-empty bitmap
BitmapMax(S) == CHOOSE x \in S : \A y \in S : y <= x

\* RoaringBitmap.clamp(start, stop): the elements in [start, stop)
Clamp(S, start, stop) == {x \in S : start <= x /\ x < stop}

-----------------------------------------------------------------------------
(* Outcomes. *)

\* `none` is the value field of an outcome that returned nothing: {} for the
\* chunker (its values are sets), NoCount for merklize (its values are counts)
Unbound == -1
NoCount == -1
NoOutcome(none) == [kind |-> "none", value |-> none, error |-> ""]
Return(v) == [kind |-> "return", value |-> v, error |-> ""]
Raise(e, none) == [kind |-> "error", value |-> none, error |-> e]

-----------------------------------------------------------------------------
(* chunkmap_from_bytemap, lines 155-175. *)

\* Faulty variant of ChunkRange: the range stops one chunk early.
ChunkRangeOff(max_contract_chunk) == 0 .. (max_contract_chunk - 1)

\* line 162: the chunk indices the general path visits
ChunkRange(max_contract_chunk) == 0 .. max_contract_chunk

\* Faulty variant of ChunkOverlap: the chunk's first byte is left out.
ChunkOverlapShort(bm, c, cs) == Clamp(bm, c * cs + 1, (c + 1) * cs)

\* lines 163-172: overlap = bytemap.clamp(chunk_start, chunk_stop)
ChunkOverlap(bm, c, cs) == Clamp(bm, c * cs, (c + 1) * cs)

\* lines 161-174: the general path
ChunkLoop(bm, cs) ==
    LET max_contract_chunk == BitmapMax(bm) \div cs
    IN  {c \in ChunkRange(max_contract_chunk) :
            Cardinality(ChunkOverlap(bm, c, cs)) # 0}

chunkmap_from_bytemap(bm, cs) ==
    IF bm = {}
    THEN Raise("max() of an empty RoaringBitmap", {})   \* line 156
    ELSE IF cs = 1
         THEN Return(bm)                                \* lines 157-159
         ELSE Return(ChunkLoop(bm, cs))                 \* lines 160-175

-----------------------------------------------------------------------------
(* merklize, lines 70-153. *)

\* line 81: num_levels = math.log(max_theoretical_chunks) / math.log(arity);
\* math.log raises ValueError at 0 and below, and math.log(1) = 0.0 divides by zero
NumLevelsError(ar, mtc) ==
    IF mtc <= 0 \/ ar <= 0 THEN "ValueError"
    ELSE IF ar = 1 THEN "ZeroDivisionError"
    ELSE ""

\* Faulty variant of DomainAssert: the bound itself is let through.
DomainAssertLoose(cm, mtc) == BitmapMax(cm) <= mtc

\* line 82: assert(chunkmap.max() < max_theoretical_chunks)
DomainAssert(cm, mtc) == BitmapMax(cm) < mtc

\* line 88: the loop condition
LoopCondition(ts, ar) == ts >= ar

\* Faulty variant of MaxActualParents: the quotient is rounded down.
MaxActualParentsFloor(m, ar) == (BitmapMax(m) + 1) \div ar

\* line 96: max_actual_parents = math.ceil((map.max() + 1) / arity)
MaxActualParents(m, ar) == CeilDiv(BitmapMax(m) + 1, ar)

\* line 98: theoretical_parents = math.ceil(theoretical_siblings / arity)
TheoreticalParents(ts, ar) == CeilDiv(ts, ar)

\* lines 101-103: parents_to_check
ParentsToCheck(m, ar, ts, fn) ==
    IF fn THEN TheoreticalParents(ts, ar) ELSE MaxActualParents(m, ar)

\* lines 106-108: siblings_start and the clamped siblings_end of parent q
SiblingsStart(q, ar) == q * ar
SiblingsEnd(q, ar, ts) == Min((q + 1) * ar, ts)

\* lines 109-110: lo = len(map.clamp(siblings_start, siblings_end))
Lo(m, q, ar, ts) ==
    Cardinality(Clamp(m, SiblingsStart(q, ar), SiblingsEnd(q, ar, ts)))

\* Faulty variant of Parents: the scan forgets to skip the absent parents.
ParentsAll(m, ar, ts, n) == 0 .. (n - 1)

\* lines 105-137: the parents appended by the scan of parents 0..n-1
Parents(m, ar, ts, n) == {q \in 0 .. (n - 1) : Lo(m, q, ar, ts) # 0}

\* Faulty variant of HashesMissing: the present siblings are not subtracted.
HashesMissingAll(m, q, ar, ts) == ar

\* lines 138-139: hashes_missing of one present parent
HashesMissing(m, q, ar, ts) == ar - Lo(m, q, ar, ts)

\* lines 138-139 over a scan: what the scan adds to num_hashes
RECURSIVE SumHashesMissing(_, _, _, _)
SumHashesMissing(m, ps, ar, ts) ==
    IF ps = {} THEN 0
    ELSE LET q == CHOOSE x \in ps : TRUE
         IN  HashesMissing(m, q, ar, ts) + SumHashesMissing(m, ps \ {q}, ar, ts)

\* line 134: assert(p < max_actual_parents), for every parent found present
SanityAssert(ps, m, ar) == \A q \in ps : q < MaxActualParents(m, ar)

\* The record logged for one processed level.
LevelRecord(m, ar, ts, fn) ==
    LET ps == Parents(m, ar, ts, ParentsToCheck(m, ar, ts, fn))
    IN  [ map |-> m,
          theoretical_siblings |-> ts,
          parents_to_check |-> ParentsToCheck(m, ar, ts, fn),
          parents |-> ps,
          hashes_missing |-> [q \in ps |-> HashesMissing(m, q, ar, ts)],
          hashes |-> SumHashesMissing(m, ps, ar, ts) ]

\* lines 88-147 run to the end of the loop: the records of the levels that
\* merklize processes from map m and width ts (the run stops early where
\* line 96 or line 134 raises)
RECURSIVE LevelsOf(_, _, _, _)
LevelsOf(m, ar, ts, fn) ==
    IF ~LoopCondition(ts, ar) \/ m = {} THEN << >>
    ELSE LET rec == LevelRecord(m, ar, ts, fn)
         IN  IF ~SanityAssert(rec.parents, m, ar) THEN << >>
             ELSE << rec >> \o LevelsOf(rec.parents, ar, TheoreticalParents(ts, ar), fn)

-----------------------------------------------------------------------------
(* Input domains. *)

ByteDomain == (0 .. MaxByte) \cup ExtraBytes
Arities == 1 .. MaxArity
SegmentStarts == {0, 31, MAXCODESIZE - 1}

-----------------------------------------------------------------------------
(* The state machine. *)

Idle(m, first) ==
    /\ mode = m
    /\ pc = first
    /\ bytemap = {}
    /\ chunk_size = 1
    /\ chunk_ret = NoOutcome({})
    /\ chunkmap = {}
    /\ max_theoretical_chunks = 0
    /\ filename = FALSE
    /\ map = {}
    /\ theoretical_siblings = 0
    /\ current_level = 0
    /\ num_hashes = 0
    /\ p = Unbound
    /\ levels = << >>
    /\ ret = NoOutcome(NoCount)
    /\ segments = 0
    /\ highlighter = FALSE

\* One call of one of the two functions.
Init == Idle("unit", "idle") /\ arity = 2

\* main, for one contract of one block: arity is args.arity (line 204).
InitMain == Idle("main", "segments") /\ arity \in Arities

\* A call of chunkmap_from_bytemap(bm, cs), lines 155-175.
CallChunkmapFromBytemap ==
    /\ mode = "unit"
    /\ pc = "idle"
    /\ \E bm \in SUBSET ByteDomain, cs \in ChunkSizes :
        /\ bytemap' = bm
        /\ chunk_size' = cs
        /\ chunk_ret' = chunkmap_from_bytemap(bm, cs)
    /\ pc' = "chunked"
    /\ UNCHANGED << mode, chunkmap, arity, max_theoretical_chunks, filename, map,
                    theoretical_siblings, current_level, num_hashes, p, levels,
                    ret, segments, highlighter >>

\* merklize(cm, ar, mtc, filename) up to the loop, lines 78-87.
MerklizeEnter(cm, ar, mtc, fn) ==
    /\ chunkmap' = cm
    /\ arity' = ar
    /\ max_theoretical_chunks' = mtc
    /\ filename' = fn
    /\ current_level' = 0
    /\ num_hashes' = 0
    /\ theoretical_siblings' = mtc
    /\ map' = cm
    /\ p' = Unbound
    /\ levels' = << >>
    /\ IF NumLevelsError(ar, mtc) # ""
       THEN /\ ret' = Raise(NumLevelsError(ar, mtc), NoCount)      \* line 81
            /\ pc' = "done"
       ELSE IF cm = {}
       THEN /\ ret' = Raise("max() of an empty RoaringBitmap", NoCount)  \* line 82
            /\ pc' = "done"
       ELSE IF ~DomainAssert(cm, mtc)
       THEN /\ ret' = Raise("AssertionError", NoCount)             \* line 82
            /\ pc' = "done"
       ELSE /\ ret' = NoOutcome(NoCount)
            /\ pc' = "loop"

\* A call of merklize with arguments of the caller's choice.
CallMerklize ==
    /\ mode = "unit"
    /\ pc = "idle"
    /\ \E cm \in SUBSET (0 .. MaxChunk), ar \in Arities,
          mtc \in 0 .. MaxTheoreticalChunks, fn \in BOOLEAN :
        MerklizeEnter(cm, ar, mtc, fn)
    /\ UNCHANGED << mode, bytemap, chunk_size, chunk_ret, segments, highlighter >>

\* One iteration of merklize's while loop, lines 88-147.
MerklizeLevel ==
    /\ pc = "loop"
    /\ LoopCondition(theoretical_siblings, arity)
    /\ IF map = {}
       THEN /\ ret' = Raise("max() of an empty RoaringBitmap", NoCount)  \* line 96
            /\ pc' = "done"
            /\ UNCHANGED << map, theoretical_siblings, current_level,
                            num_hashes, p, levels >>
       ELSE LET rec == LevelRecord(map, arity, theoretical_siblings, filename)
            IN  IF ~SanityAssert(rec.parents, map, arity)
                THEN /\ ret' = Raise("AssertionError", NoCount)    \* line 134
                     /\ pc' = "done"
                     /\ UNCHANGED << map, theoretical_siblings, current_level,
                                     num_hashes, p, levels >>
                ELSE /\ map' = rec.parents                         \* line 145
                     /\ theoretical_siblings' =
                            TheoreticalParents(theoretical_siblings, arity)
                     /\ current_level' = current_level + 1
                     /\ num_hashes' = num_hashes + rec.hashes
                     /\ p' = IF rec.parents_to_check > 0
                             THEN rec.parents_to_check - 1 ELSE p
                     /\ levels' = Append(levels, rec)
                     /\ UNCHANGED << ret, pc >>
    /\ UNCHANGED << mode, bytemap, chunk_size, chunk_ret, chunkmap, arity,
                    max_theoretical_chunks, filename, segments, highlighter >>

\* The end of merklize, lines 148-153: the root's label reads p.
MerklizeExit ==
    /\ pc = "loop"
    /\ ~LoopCondition(theoretical_siblings, arity)
    /\ ret' = IF p = Unbound
              THEN Raise("UnboundLocalError", NoCount)             \* line 148
              ELSE Return(num_hashes)                              \* line 153
    /\ pc' = "done"
    /\ UNCHANGED << mode, bytemap, chunk_size, chunk_ret, chunkmap, arity,
                    max_theoretical_chunks, filename, map, theoretical_siblings,
                    current_level, num_hashes, p, levels, segments, highlighter >>

\* main merges one segment into the contract's bytemap, lines 271-275.
MainUpdate ==
    /\ mode = "main"
    /\ pc = "segments"
    /\ segments < MaxSegments
    /\ \E start \in SegmentStarts, length \in 1 .. MaxSegmentLength :
        LET end == start + length - 1
        IN  /\ end < MAXCODESIZE
            /\ bytemap' = bytemap \cup (start .. end)
    /\ segments' = segments + 1
    /\ UNCHANGED << mode, chunk_size, chunk_ret, chunkmap, arity,
                    max_theoretical_chunks, filename, pc, map,
                    theoretical_siblings, current_level, num_hashes, p, levels,
                    ret, highlighter >>

\* main chunks the bytemap for one configured chunk size, lines 318-321.
MainChunk ==
    /\ mode = "main"
    /\ pc = "segments"
    /\ \E cs \in ChunkSizes :
        LET r == chunkmap_from_bytemap(bytemap, cs)
        IN  /\ chunk_size' = cs
            /\ chunk_ret' = r
            /\ chunkmap' = IF r.kind = "return" THEN r.value ELSE chunkmap
            /\ pc' = IF r.kind = "return" THEN "chunked" ELSE "done"
    /\ UNCHANGED << mode, bytemap, arity, max_theoretical_chunks, filename, map,
                    theoretical_siblings, current_level, num_hashes, p, levels,
                    ret, segments, highlighter >>

\* main calls merklize on the chunkmap, lines 322-323.
MainMerklize ==
    /\ mode = "main"
    /\ pc = "chunked"
    /\ MerklizeEnter(chunkmap, arity, MAXCODESIZE \div chunk_size, FALSE)
    /\ UNCHANGED << mode, bytemap, chunk_size, chunk_ret, segments, highlighter >>

\* main's sanity check on the chunked bytes, lines 325-333.
MainCheck ==
    /\ mode = "main"
    /\ pc = "done"
    /\ ret.kind = "return"
    /\ LET num_chunks == Cardinality(chunkmap)
           chunked_bytes == num_chunks * chunk_size
           executed_bytes == Cardinality(bytemap)
       IN  highlighter' = (chunked_bytes < executed_bytes)
    /\ pc' = "checked"
    /\ UNCHANGED << mode, bytemap, chunk_size, chunk_ret, chunkmap, arity,
                    max_theoretical_chunks, filename, map, theoretical_siblings,
                    current_level, num_hashes, p, levels, ret, segments >>

Next ==
    \/ CallChunkmapFromBytemap
    \/ CallMerklize
    \/ MerklizeLevel
    \/ MerklizeExit

Spec == Init /\ [][Next]_vars

NextMain ==
    \/ MainUpdate
    \/ MainChunk
    \/ MainMerklize
    \/ MerklizeLevel
    \/ MerklizeExit
    \/ MainCheck

SpecMain == InitMain /\ [][NextMain]_vars

-----------------------------------------------------------------------------
(* Vocabulary of the properties. *)

\* merklize was called from the unit specification and has passed line 87 or ended
Called == pc \in {"loop", "done"}

\* the valid inputs of merklize: arity >= 2, a non-empty chunk set below the bound
ValidInput ==
    /\ arity >= 2
    /\ chunkmap # {}
    /\ BitmapMax(chunkmap) < max_theoretical_chunks

\* the number of elements of S in [lo, hi)
Present(S, lo, hi) == Cardinality({x \in S : lo <= x /\ x < hi})

\* the parents of a level of width w that have at least one element of S
PresentParentsOf(S, a, w) ==
    {q \in 0 .. (CeilDiv(w, a) - 1) : Present(S, q * a, Min((q + 1) * a, w)) >= 1}

RECURSIVE SumOver(_, _, _, _)
SumOver(ps, S, a, w) ==
    IF ps = {} THEN 0
    ELSE LET q == CHOOSE x \in ps : TRUE
         IN  (a - Present(S, q * a, Min((q + 1) * a, w)))
             + SumOver(ps \ {q}, S, a, w)

\* the total of the level-by-level description of the missing-hash count
RECURSIVE LevelTotal(_, _, _)
LevelTotal(S, a, w) ==
    IF w < a THEN 0
    ELSE SumOver(PresentParentsOf(S, a, w), S, a, w)
         + LevelTotal(PresentParentsOf(S, a, w), a, CeilDiv(w, a))

RECURSIVE Pow(_, _)
Pow(a, k) == IF k = 0 THEN 1 ELSE a * Pow(a, k - 1)

\* ceil(log_a(n)) for a >= 2, n >= 1: the least k with a^k >= n
CeilLog(a, n) == CHOOSE k \in 0 .. n : Pow(a, k) >= n /\ \A j \in 0 .. (k - 1) : Pow(a, j) < n

-----------------------------------------------------------------------------
(* Properties of the unit specification Spec and of SpecMain. *)

\* C1: for a non-empty byte set B and a chunk size s >= 1, chunkmap_from_bytemap
\* returns exactly the chunk indices c with a byte of B in [c*s, (c+1)*s); with
\* s = 1 the result is B, and B = {0,5,31,32}, s = 32 gives {0,1}.
C1_ChunkmapIsChunksTouched ==
    (pc = "chunked" /\ mode = "unit" /\ bytemap # {}) =>
        /\ chunk_ret.kind = "return"
        /\ chunk_ret.value =
             {c \in 0 .. BitmapMax(bytemap) :
                \E b \in bytemap : c * chunk_size <= b /\ b < (c + 1) * chunk_size}
        /\ (chunk_size = 1 => chunk_ret.value = bytemap)
        /\ (bytemap = {0, 5, 31, 32} /\ chunk_size = 32 => chunk_ret.value = {0, 1})

C1_Witness ==
    /\ pc = "chunked"
    /\ bytemap = {0, 5, 31, 32}
    /\ chunk_size = 32
    /\ chunk_ret = Return({0, 1})

\* C2 (as claimed): for arity >= 2, any max_theoretical_chunks N and a non-empty
\* chunk set below N, merklize returns the level-by-level total.
C2_ReturnsLevelTotal_Claimed ==
    (mode = "unit" /\ pc = "done" /\ ValidInput) =>
        ret = Return(LevelTotal(chunkmap, arity, max_theoretical_chunks))

\* C3 (as claimed): merklize on an empty chunk set returns 0, processes no
\* level and raises nothing.
C3_EmptyChunkSetReturnsZero_Claimed ==
    (mode = "unit" /\ pc = "done" /\ arity >= 2 /\ chunkmap = {}) =>
        ret = Return(0) /\ levels = << >>

\* C4 (as claimed): chunkmap_from_bytemap on an empty byte set returns an empty
\* chunk set and raises nothing, for every chunk size.
C4_EmptyByteSetReturnsEmpty_Claimed ==
    (mode = "unit" /\ pc = "chunked" /\ bytemap = {}) => chunk_ret = Return({})

\* C5: a non-empty chunk set whose maximum is >= max_theoretical_chunks makes
\* merklize end with an error before any level is processed; no count is returned.
C5_DomainViolationAborts ==
    (mode = "unit" /\ Called /\ arity >= 2 /\ chunkmap # {}
        /\ BitmapMax(chunkmap) >= max_theoretical_chunks) =>
        /\ pc = "done"
        /\ ret.kind = "error"
        /\ ret.value = NoCount
        /\ levels = << >>
        /\ current_level = 0

C5_Witness ==
    /\ mode = "unit"
    /\ pc = "done"
    /\ arity >= 2
    /\ chunkmap # {}
    /\ max_theoretical_chunks >= 1
    /\ BitmapMax(chunkmap) = max_theoretical_chunks
    /\ ret = Raise("AssertionError", NoCount)

\* C6 (as claimed): for a byte set inside [0, MAXCODESIZE) and any configured
\* chunk size, the chunk set main hands to merklize has its maximum below
\* MAXCODESIZE // chunk_size, so the assertion of line 82 never fails there.
C6_MainRespectsDomainBound_Claimed ==
    (mode = "main" /\ pc \in {"loop", "done", "checked"} /\ arity >= 2
        /\ chunk_ret.kind = "return" /\ max_theoretical_chunks >= 1) =>
        /\ BitmapMax(chunkmap) < max_theoretical_chunks
        /\ ret.error # "AssertionError"

RECURSIVE SumHashes(_)
SumHashes(recs) ==
    IF recs = << >> THEN 0 ELSE Head(recs).hashes + SumHashes(Tail(recs))

\* C7: for valid inputs the run with a filename (dense scan of all theoretical
\* parents) and the run without (sparse scan up to ceil((max+1)/arity)) find the
\* same present parents and add the same hashes at every level, end with the same
\* outcome, and line 134's assertion holds for every parent the dense scan finds.
C7_DenseEqualsSparse ==
    (mode = "unit" /\ Called /\ ValidInput) =>
        LET other == LevelsOf(chunkmap, arity, max_theoretical_chunks, ~filename)
        IN  /\ Len(levels) <= Len(other)
            /\ \A i \in 1 .. Len(levels) :
                  /\ other[i].map = levels[i].map
                  /\ other[i].parents = levels[i].parents
                  /\ other[i].hashes = levels[i].hashes
                  /\ SanityAssert(
                        Parents(levels[i].map, arity, levels[i].theoretical_siblings,
                                TheoreticalParents(levels[i].theoretical_siblings, arity)),
                        levels[i].map, arity)
            /\ ret.error # "AssertionError"
            /\ pc = "done" =>
                  /\ Len(other) = Len(levels)
                  /\ ret.kind = "return" => ret.value = SumHashes(other)

C7_Witness ==
    /\ mode = "unit"
    /\ pc = "done"
    /\ ValidInput
    /\ filename
    /\ ret.kind = "return"
    /\ ret.value > 0
    /\ Len(levels) >= 2
    /\ \E i \in 1 .. Len(levels) :
          levels[i].parents_to_check > MaxActualParents(levels[i].map, arity)

\* C8: for valid inputs the count merklize returns is >= 0 and at most
\* cardinality(chunk set) * (arity - 1) * ceil(log_arity(max_theoretical_chunks)).
C8_CountWithinBounds ==
    (mode = "unit" /\ pc = "done" /\ ValidInput /\ ret.kind = "return") =>
        /\ ret.value >= 0
        /\ ret.value <= Cardinality(chunkmap) * (arity - 1)
                          * CeilLog(arity, max_theoretical_chunks)

C8_Witness ==
    /\ mode = "unit"
    /\ pc = "done"
    /\ ValidInput
    /\ ret.kind = "return"
    /\ Len(levels) >= 2
    /\ ret.value > 0
    /\ ret.value = Cardinality(chunkmap) * (arity - 1)
                      * CeilLog(arity, max_theoretical_chunks)

\* C9: the chunk set chunkmap_from_bytemap returns for a non-empty byte set covers
\* at least as many bytes as were executed, so main's check of line 330 never fires.
C9_ChunkedBytesCoverExecuted ==
    /\ (chunk_ret.kind = "return" /\ bytemap # {}) =>
          Cardinality(chunk_ret.value) * chunk_size >= Cardinality(bytemap)
    /\ ~highlighter

C9_Witness ==
    /\ mode = "main"
    /\ pc = "checked"
    /\ chunk_size > 1
    /\ Cardinality(bytemap) > 1
    /\ Cardinality(chunkmap) * chunk_size = Cardinality(bytemap)
    /\ ~highlighter

\* C10 (as claimed): for valid inputs, when the level loop has run and its
\* condition fails (theoretical width < arity), the level set is the single
\* root {0} and the theoretical width is 1.
C10_SingleRoot_Claimed ==
    (mode = "unit" /\ Called /\ ValidInput /\ current_level >= 1
        /\ ~LoopCondition(theoretical_siblings, arity)) =>
        map = {0} /\ theoretical_siblings = 1

\* the indices of parent q's child range [q*a, min((q+1)*a, w)) absent from S
AbsentChildren(S, q, a, w) ==
    {c \in (q * a) .. (Min((q + 1) * a, w) - 1) : c \notin S}

\* C11 (as claimed): for every present parent of every processed level, the
\* hashes added for it equal the number of indices of its clamped child range
\* that are absent from the level set, the narrower last group included.
C11_HashesAreAbsentChildren_Claimed ==
    (mode = "unit" /\ Called /\ ValidInput) =>
        \A i \in 1 .. Len(levels) : \A q \in levels[i].parents :
            levels[i].hashes_missing[q] =
                Cardinality(AbsentChildren(levels[i].map, q, arity,
                                           levels[i].theoretical_siblings))

\* C12 (as claimed): when the loop condition fails, the number of levels the
\* loop has processed is ceil(log_arity(max_theoretical_chunks)).
C12_LevelsAreCeilLog_Claimed ==
    (mode = "unit" /\ Called /\ ValidInput
        /\ ~LoopCondition(theoretical_siblings, arity)) =>
        /\ current_level = CeilLog(arity, max_theoretical_chunks)
        /\ Len(levels) = current_level

\* C13 (as claimed): at every processed level the number of recorded parents is
\* at most the number of nodes of the level divided by arity.
C13_ParentsShrinkByArity_Claimed ==
    (mode = "unit" /\ Called /\ ValidInput) =>
        \A i \in 1 .. Len(levels) :
            Cardinality(levels[i].parents) * arity <= Cardinality(levels[i].map)

\* C13 (amended): at every processed level the number of recorded parents is at
\* most the number of nodes of the level.
C13_ParentsDoNotGrow ==
    (mode = "unit" /\ Called /\ ValidInput) =>
        \A i \in 1 .. Len(levels) :
            Cardinality(levels[i].parents) <= Cardinality(levels[i].map)

C13_Witness ==
    /\ mode = "unit"
    /\ pc = "done"
    /\ ValidInput
    /\ ret.kind = "return"
    /\ Len(levels) >= 2
    /\ Cardinality(levels[1].map) >= 2
    /\ Cardinality(levels[1].parents) = Cardinality(levels[1].map)
    /\ Cardinality(levels[2].parents) < Cardinality(levels[2].map)

====
